---------------------------- MODULE Spec2Model ----------------------------
(***************************************************************************)
(* A model of package solar (github.com/diamondburned/solar): the sun      *)
(* position calculator (CalculateSun), the temperature interpolator        *)
(* (CalculateTemperature, calcTempNormal, interpTemp) and the whitepoint   *)
(* engine (CalculateWhitepoint).                                           *)
(*                                                                         *)
(* Number representations.  float64 values are fixed-point integers:       *)
(*   - angles (radians, degrees), trigonometric values and ratios carry    *)
(*     SC units per 1.0 (1.5708 rad is 15708);                             *)
(*   - a float64 count of seconds is a whole number of seconds;            *)
(*   - every operation rounds toward zero, so that f(-x) = -f(x) as in     *)
(*     IEEE arithmetic.                                                    *)
(* A float64 that may be NaN or infinite is a record [nan, inf, neg, v]   *)
(* (F, NaNF, InfF); a float64 ratio of two durations, and a Temperature   *)
(* interpolated from it, is an exact fraction [nan, inf, neg, num, den]   *)
(* (Q), so that rounding does not decide an interpolated value.           *)
(* A time.Time is a record [u, loc]: u is the instant in whole minutes     *)
(* since the Unix epoch, loc the name of its time zone.                    *)
(***************************************************************************)
EXTENDS Integers, Sequences, FiniteSets

VARIABLES pc, call, ret

vars == <<pc, call, ret>>

----------------------------------------------------------------------------
(* Integer helpers.                                                        *)

Abs(x) == IF x < 0 THEN -x ELSE x

Sgn(x) == IF x < 0 THEN -1 ELSE IF x > 0 THEN 1 ELSE 0

\* Division rounding toward zero (Go's integer division and float-to-integer
\* conversion).
TDiv(a, b) == Sgn(a) * Sgn(b) * (Abs(a) \div Abs(b))

\* Remainder with the sign of the dividend (math.Mod, Go's %).
TRem(a, b) == a - b * TDiv(a, b)

RECURSIVE Gcd(_, _)
Gcd(a, b) == IF b = 0 THEN a ELSE Gcd(b, a % b)

----------------------------------------------------------------------------
(* float64 as fixed point.                                                 *)

\* Units per 1.0 of a fixed-point float64.
SC == 10000

\* math.Pi in fixed point.
Pi == 31416

\* a * b of two fixed-point values (b of magnitude below 21.4), computed in
\* two parts to stay within 32 bits.
Mul(a, b) ==
    Sgn(a) * Sgn(b) *
        ((Abs(a) \div SC) * Abs(b) + ((Abs(a) % SC) * Abs(b)) \div SC)

\* a / b of two fixed-point values (b # 0 of magnitude below 21.4).
Div(a, b) ==
    Sgn(a) * Sgn(b) *
        ((Abs(a) \div Abs(b)) * SC + ((Abs(a) % Abs(b)) * SC) \div Abs(b))

\* A float64 that may be NaN or infinite: nan, inf, the sign bit, and the
\* value when finite.
F(v) == [nan |-> FALSE, inf |-> FALSE, neg |-> v < 0, v |-> v]

NaNF(neg) == [nan |-> TRUE, inf |-> FALSE, neg |-> neg, v |-> 0]

InfF(neg) == [nan |-> FALSE, inf |-> TRUE, neg |-> neg, v |-> 0]

\* f >= c and f == c for a float64 f and a finite number c: false of NaN.
FGe(f, c) == ~f.nan /\ (IF f.inf THEN ~f.neg ELSE f.v >= c)

FEq(f, c) == ~f.nan /\ ~f.inf /\ f.v = c

\* math.IsNaN
IsNaN(f) == f.nan

\* math.Signbit
Signbit(f) == f.neg

\* math.Abs: clears the sign bit, of a NaN too.
FAbs(f) == [nan |-> f.nan, inf |-> f.inf, neg |-> FALSE, v |-> Abs(f.v)]

\* Unary minus: flips the sign bit, of a NaN too.
FNeg(f) == [nan |-> f.nan, inf |-> f.inf, neg |-> ~f.neg, v |-> -f.v]

degrees(rad) == Div(rad * 180, Pi)

radians(deg) == TDiv(Mul(deg, Pi), 180)

\* sin of 0..90 whole degrees, in fixed point.
SinTab ==
    << 0, 175, 349, 523, 698, 872, 1045, 1219, 1392, 1564,
       1736, 1908, 2079, 2250, 2419, 2588, 2756, 2924, 3090, 3256,
       3420, 3584, 3746, 3907, 4067, 4226, 4384, 4540, 4695, 4848,
       5000, 5150, 5299, 5446, 5592, 5736, 5878, 6018, 6157, 6293,
       6428, 6561, 6691, 6820, 6947, 7071, 7193, 7314, 7431, 7547,
       7660, 7771, 7880, 7986, 8090, 8192, 8290, 8387, 8480, 8572,
       8660, 8746, 8829, 8910, 8988, 9063, 9135, 9205, 9272, 9336,
       9397, 9455, 9511, 9563, 9613, 9659, 9703, 9744, 9781, 9816,
       9848, 9877, 9903, 9925, 9945, 9962, 9976, 9986, 9994, 9998,
       10000 >>

\* sin of d fixed-point degrees, 0 <= d <= 90: the table, interpolated.
SinQuadrant(d) ==
    LET i == d \div SC
        f == d % SC
    IN  IF i >= 90 THEN SinTab[91]
        ELSE SinTab[i + 1] + ((SinTab[i + 2] - SinTab[i + 1]) * f) \div SC

\* sin of d fixed-point degrees, 0 <= d < 360.
SinDeg(d) ==
    IF d <= 90 * SC THEN SinQuadrant(d)
    ELSE IF d <= 180 * SC THEN SinQuadrant(180 * SC - d)
    ELSE IF d <= 270 * SC THEN -SinQuadrant(d - 180 * SC)
    ELSE -SinQuadrant(360 * SC - d)

\* math.Sin
Sin(rad) ==
    LET d == degrees(Abs(rad)) % (360 * SC)
    IN  Sgn(rad) * SinDeg(d)

\* math.Cos
Cos(rad) ==
    LET d == (degrees(Abs(rad)) + 90 * SC) % (360 * SC)
    IN  SinDeg(d)

\* math.Tan (the argument is never an odd multiple of Pi/2 here).
Tan(rad) == Div(Sin(rad), Cos(rad))

\* acos of 0 <= x <= 1 in fixed-point degrees: the table read backwards
\* (cos i = sin (90 - i)), interpolated.
AcosDeg(x) ==
    LET i == CHOOSE k \in 0..89 :
                 /\ SinTab[91 - k] >= x
                 /\ (k = 89 \/ SinTab[90 - k] < x)
        hi == SinTab[91 - i]
        lo == SinTab[90 - i]
    IN  i * SC + ((hi - x) * SC) \div (hi - lo)

\* math.Acos: NaN outside [-1, 1].
Acos(x) ==
    IF x > SC \/ x < -SC THEN NaNF(FALSE)
    ELSE IF x >= 0 THEN F(radians(AcosDeg(x)))
    ELSE F(Pi - radians(AcosDeg(-x)))

----------------------------------------------------------------------------
(* time.Time: instants in whole minutes, and the calendar.                 *)

MinPerHour == 60

MinPerDay == 1440

\* The zero time.Time{}: January 1, year 1, 00:00 UTC, in minutes since the
\* Unix epoch.
ZeroUnixMin == -1035593280

\* The largest time.Duration (1<<63 - 1 nanoseconds), in whole minutes.
MaxDuration == 153722867

ZeroTime == [u |-> ZeroUnixMin, loc |-> "UTC"]

\* t.IsZero()
IsZero(t) == t.u = ZeroUnixMin

\* t.Before(u)
Before(t, u) == t.u < u.u

\* t.Add(d), d in minutes.
Add(t, d) == [u |-> t.u + d, loc |-> t.loc]

\* t.Sub(u) in minutes: the difference, saturated at the largest Duration.
Sub(t, u) ==
    LET d == t.u - u.u
    IN  IF d > MaxDuration THEN MaxDuration
        ELSE IF d < -MaxDuration THEN -MaxDuration
        ELSE d

\* America/Los_Angeles in 2021: daylight saving time (UTC-7) from
\* 2021-03-14 10:00 UTC to 2021-11-07 09:00 UTC, else standard time (UTC-8).
LADstStart == 26928600

LADstEnd == 27271260

\* The UTC offset, in minutes, of zone loc at instant u.
ZoneOffset(loc, u) ==
    IF loc = "LA"
    THEN IF u >= LADstStart /\ u < LADstEnd THEN -7 * MinPerHour
         ELSE -8 * MinPerHour
    ELSE 0

\* The wall-clock minutes since the Unix epoch that t reads in its zone.
Local(t) == t.u + ZoneOffset(t.loc, t.u)

\* t.Hour(), t.Minute()
Hour(t) == (Local(t) % MinPerDay) \div MinPerHour

Minute(t) == Local(t) % MinPerHour

\* Days since 1970-01-01 of the calendar date t reads in its zone.
LocalDay(t) == Local(t) \div MinPerDay

\* Days since 1970-01-01 of January 1 of year y (Gregorian calendar).
DaysToJan1(y) ==
    LET p   == y - 1
        era == p \div 400
        yoe == p % 400
        doe == yoe * 365 + yoe \div 4 - yoe \div 100 + 306
    IN  era * 146097 + doe - 719468

\* The calendar year of day number days.
YearOfDay(days) ==
    LET z   == days + 719468
        era == z \div 146097
        doe == z % 146097
        yoe == (doe - doe \div 1460 + doe \div 36524 - doe \div 146096) \div 365
        doy == doe - (365 * yoe + yoe \div 4 - yoe \div 100)
    IN  yoe + era * 400 + (IF doy >= 306 THEN 1 ELSE 0)

\* t.Year()
Year(t) == YearOfDay(LocalDay(t))

\* t.YearDay(): 1 on January 1.
YearDay(t) == LocalDay(t) - DaysToJan1(Year(t)) + 1

\* time.Date(y, time.January, 1, 0, 0, 0, 0, loc): the instant that reads
\* 00:00 on January 1 of year y in loc.
DateJan1(y, loc) ==
    LET wall == DaysToJan1(y) * MinPerDay
        utc  == wall - ZoneOffset(loc, wall)
    IN  [u |-> wall - ZoneOffset(loc, utc), loc |-> loc]

----------------------------------------------------------------------------
(* The sun position calculator.                                            *)

\* (90.833 + 6) * math.Pi / 180 and (90.833 - 3) * math.Pi / 180
startTwilight == radians(968330)

endTwilight == radians(878330)

\* daysInYear that takes every year for a common year.
daysInYearCommon(t) == YearDay(Add(DateJan1(Year(t), t.loc), 365 * MinPerDay - 1))

daysInYear(t) ==
    LET jan1 == DateJan1(Year(t) + 1, t.loc)
    IN  YearDay(Add(jan1, -1))

dateOrbitAngle(t) == TDiv(2 * Pi * YearDay(t), daysInYear(t))

\* A coefficient c, written in millionths, times a fixed-point value: the
\* product in millionths.
Coef(c, x) == Mul(c, x)

\* In millionths of a radian first, then in fixed point.
equationOfTime(orbitAngle) ==
    TDiv(4 * (75
              + Coef(1868, Cos(orbitAngle))
              - Coef(32077, Sin(orbitAngle))
              - Coef(14615, Cos(2 * orbitAngle))
              - Coef(40849, Sin(2 * orbitAngle))), 100)

sunDeclination(orbitAngle) ==
    TDiv(6918
         - Coef(399912, Cos(orbitAngle))
         + Coef(70257, Sin(orbitAngle))
         - Coef(6758, Cos(2 * orbitAngle))
         + Coef(907, Sin(2 * orbitAngle))
         - Coef(2697, Cos(3 * orbitAngle))
         + Coef(1480, Sin(3 * orbitAngle)), 100)

\* math.Cos(targetSun) is divided by math.Cos(latitude) and the quotient is
\* multiplied by math.Cos(declination), as Go's left-to-right evaluation of
\* a / b * c does.  When math.Cos(latitude) is 0 in fixed point the float64
\* quotient is huge and math.Acos yields NaN.
sunHourAngle(latitude, declination, targetSun) ==
    IF Cos(latitude) = 0 THEN NaNF(FALSE)
    ELSE Acos(Mul(Div(Cos(targetSun), Cos(latitude)), Cos(declination))
              - Mul(Tan(latitude), Tan(declination)))

\* hourAngleToSecondsOffset with the hour angle added.
hourAngleToSecondsOffsetAdded(hourAngle, eqtime) ==
    IF IsNaN(hourAngle) THEN NaNF(hourAngle.neg)
    ELSE F(TDiv(degrees(4 * Pi + 4 * hourAngle.v - eqtime) * 60, SC))

\* Seconds, from a hour angle that may be NaN and the equation of time.
hourAngleToSecondsOffset(hourAngle, eqtime) ==
    IF IsNaN(hourAngle) THEN NaNF(hourAngle.neg)
    ELSE F(TDiv(degrees(4 * Pi - 4 * hourAngle.v - eqtime) * 60, SC))

\* Seconds; long is in whole degrees.
longitudeTimeOffset(long) == Div(long * 43200, Pi)

\* timeTruncateDay that takes off the hours only.
timeTruncateDayHours(t) == Add(t, -(Hour(t) * MinPerHour))

timeTruncateDay(t) ==
    LET toffset == Hour(t) * MinPerHour + Minute(t)
    IN  Add(t, -toffset)

\* timeAddSeconds that returns t when secs is NaN.
timeAddSecondsKept(t, secs) ==
    IF IsNaN(secs) THEN t
    ELSE Add(t, TDiv(secs.v, 60))

\* secs is a float64 of whole seconds that may be NaN.
timeAddSeconds(t, secs) ==
    IF IsNaN(secs) THEN ZeroTime
    ELSE Add(t, TDiv(secs.v, 60))

\* timeTruncateDayLongitude that adds the whole longitude offset.
timeTruncateDayLongitudeWhole(t, long) ==
    timeAddSeconds(timeTruncateDay(t), F(longitudeTimeOffset(long)))

timeTruncateDayLongitude(t, long) ==
    LET offset == TRem(longitudeTimeOffset(long), 1 * 60 * 60)
    IN  timeAddSeconds(timeTruncateDay(t), F(offset))

\* calcCondition with its two results exchanged.
calcConditionExchanged(latitudeRad, sunDecl) ==
    IF Signbit(latitudeRad) = Signbit(sunDecl)
    THEN "PolarNightSun" ELSE "MidnightSun"

calcCondition(latitudeRad, sunDecl) ==
    LET signLat  == Signbit(latitudeRad)
        signDecl == Signbit(sunDecl)
    IN  IF signLat = signDecl THEN "MidnightSun" ELSE "PolarNightSun"

\* SunReturn with the Dawn at the hour angle of the Sunrise.
SunReturnDawnFromDaylight(t0, latitudeRad, decl, eqtime, haTwilight, haDaylight) ==
    [t0 |-> t0, latitudeRad |-> latitudeRad, decl |-> decl,
     eqtime |-> eqtime, haTwilight |-> haTwilight, haDaylight |-> haDaylight,
     sun |->
       [Dawn    |-> timeAddSeconds(t0,
                      hourAngleToSecondsOffset(FAbs(haDaylight), eqtime)),
        Dusk    |-> timeAddSeconds(t0,
                      hourAngleToSecondsOffset(FNeg(FAbs(haTwilight)), eqtime)),
        Sunrise |-> timeAddSeconds(t0,
                      hourAngleToSecondsOffset(FAbs(haDaylight), eqtime)),
        Sunset  |-> timeAddSeconds(t0,
                      hourAngleToSecondsOffset(FNeg(FAbs(haDaylight)), eqtime)),
        Condition |->
            IF IsNaN(haTwilight) \/ IsNaN(haDaylight)
            THEN calcCondition(F(latitudeRad), F(decl))
            ELSE "NormalSun"]]

\* CalculateSun with its local variables, from the last statement to the
\* first.  The return statement: the four timestamps and the condition.
SunReturn(t0, latitudeRad, decl, eqtime, haTwilight, haDaylight) ==
    [t0 |-> t0, latitudeRad |-> latitudeRad, decl |-> decl,
     eqtime |-> eqtime, haTwilight |-> haTwilight, haDaylight |-> haDaylight,
     sun |->
       [Dawn    |-> timeAddSeconds(t0,
                      hourAngleToSecondsOffset(FAbs(haTwilight), eqtime)),
        Dusk    |-> timeAddSeconds(t0,
                      hourAngleToSecondsOffset(FNeg(FAbs(haTwilight)), eqtime)),
        Sunrise |-> timeAddSeconds(t0,
                      hourAngleToSecondsOffset(FAbs(haDaylight), eqtime)),
        Sunset  |-> timeAddSeconds(t0,
                      hourAngleToSecondsOffset(FNeg(FAbs(haDaylight)), eqtime)),
        Condition |->
            IF IsNaN(haTwilight) \/ IsNaN(haDaylight)
            THEN calcCondition(F(latitudeRad), F(decl))
            ELSE "NormalSun"]]

\* haTwilight and haDaylight, from the declination and the equation of time.
SunHourAngles(t0, latitudeRad, decl, eqtime) ==
    SunReturn(t0, latitudeRad, decl, eqtime,
              sunHourAngle(latitudeRad, decl, startTwilight),
              sunHourAngle(latitudeRad, decl, endTwilight))

\* decl and eqtime, from the orbit angle.
SunOrbit(t0, latitudeRad, orbitAngle) ==
    SunHourAngles(t0, latitudeRad,
                  sunDeclination(orbitAngle), equationOfTime(orbitAngle))

\* latitudeRad and orbitAngle, from t0, which is t after line 307.
SunDay(t0, lat) == SunOrbit(t0, radians(lat * SC), dateOrbitAngle(t0))

\* SunFrame with the orbit angle of the instant passed in.
SunFrameOrbitOfInput(t, lat, long) ==
    SunOrbit(timeTruncateDayLongitude(t, long), radians(lat * SC),
             dateOrbitAngle(t))

SunFrame(t, lat, long) == SunDay(timeTruncateDayLongitude(t, long), lat)

CalculateSun(t, lat, long) == SunFrame(t, lat, long).sun

----------------------------------------------------------------------------
(* The temperature interpolator.                                           *)

\* The fraction n / d of two float64 values, as float64 division yields it:
\* in lowest terms, and NaN or an infinity when d is 0.
Q(n, d) ==
    IF d = 0
    THEN [nan |-> n = 0, inf |-> n # 0, neg |-> n < 0, num |-> 0, den |-> 1]
    ELSE LET g == Gcd(Abs(n), Abs(d))
         IN  [nan |-> FALSE, inf |-> FALSE, neg |-> Sgn(n) * Sgn(d) < 0,
              num |-> Sgn(d) * (n \div g), den |-> Abs(d) \div g]

\* clamp clamps the given value between [0.0, 1.0]; a NaN fails both
\* comparisons and is returned.
clamp(value) ==
    IF value.nan THEN value
    ELSE IF value.inf THEN (IF value.neg THEN Q(0, 1) ELSE Q(1, 1))
    ELSE IF value.num > value.den THEN Q(1, 1)
    ELSE IF value.num < 0 THEN Q(0, 1)
    ELSE value

\* interpTempAt without its Tstart term: tempPos alone.
interpTempAtOffsetless(timePos, Tstart, Tstop) ==
    IF timePos.nan THEN timePos
    ELSE Q((Tstop - Tstart) * timePos.num, timePos.den)

\* interpTempAt running from Tstop to Tstart.
interpTempAtReversed(timePos, Tstart, Tstop) ==
    IF timePos.nan THEN timePos
    ELSE Q(Tstop * timePos.den + (Tstart - Tstop) * timePos.num, timePos.den)

\* The last line of interpTemp: Tstart + timePos * (Tstop - Tstart), where
\* timePos is a fraction or NaN.
interpTempAt(timePos, Tstart, Tstop) ==
    IF timePos.nan THEN timePos
    ELSE Q(Tstart * timePos.den + (Tstop - Tstart) * timePos.num, timePos.den)

\* timePos of interpTemp before it is clamped: the quotient of the two
\* Durations.
timePos(t, start, stop) == Q(Sub(t, start), Sub(stop, start))

\* lo and hi are whole Kelvin; the result is a fraction.
interpTemp(t, start, stop, Tstart, Tstop) ==
    IF Tstart = Tstop THEN Q(Tstop, 1)
    ELSE interpTempAt(clamp(timePos(t, start, stop)), Tstart, Tstop)

\* The arguments of one call of interpTemp.
InterpCall(t, start, stop, Tstart, Tstop) ==
    [t |-> t, start |-> start, stop |-> stop, Tstart |-> Tstart, Tstop |-> Tstop]

\* interpTempCalls that tests the Dusk before the Sunset.
interpTempCallsDuskFirst(t, sun, lo, hi) ==
    IF Before(t, sun.Dawn) THEN <<>>
    ELSE IF Before(t, sun.Sunrise)
         THEN <<InterpCall(t, sun.Dawn, sun.Sunrise, lo, hi)>>
    ELSE IF Before(t, sun.Dusk)
         THEN <<InterpCall(t, sun.Sunset, sun.Dusk, hi, lo)>>
    ELSE <<>>

\* The calls of interpTemp that calcTempNormal(t, sun, lo, hi) makes, in
\* order: the cases of its switch.
interpTempCalls(t, sun, lo, hi) ==
    IF Before(t, sun.Dawn) THEN <<>>
    ELSE IF Before(t, sun.Sunrise)
         THEN <<InterpCall(t, sun.Dawn, sun.Sunrise, lo, hi)>>
    ELSE IF Before(t, sun.Sunset) THEN <<>>
    ELSE IF Before(t, sun.Dusk)
         THEN <<InterpCall(t, sun.Sunset, sun.Dusk, hi, lo)>>
    ELSE <<>>

\* calcTempNormal with the evening ramp running from lo to hi.
calcTempNormalEveningRising(t, sun, lo, hi) ==
    IF Before(t, sun.Dawn) THEN Q(lo, 1)
    ELSE IF Before(t, sun.Sunrise)
         THEN interpTemp(t, sun.Dawn, sun.Sunrise, lo, hi)
    ELSE IF Before(t, sun.Sunset) THEN Q(hi, 1)
    ELSE IF Before(t, sun.Dusk)
         THEN interpTemp(t, sun.Sunset, sun.Dusk, lo, hi)
    ELSE Q(lo, 1)

calcTempNormal(t, sun, lo, hi) ==
    IF Before(t, sun.Dawn) THEN Q(lo, 1)
    ELSE IF Before(t, sun.Sunrise)
         THEN interpTemp(t, sun.Dawn, sun.Sunrise, lo, hi)
    ELSE IF Before(t, sun.Sunset) THEN Q(hi, 1)
    ELSE IF Before(t, sun.Dusk)
         THEN interpTemp(t, sun.Sunset, sun.Dusk, hi, lo)
    ELSE Q(lo, 1)

\* 24 hours ago.
yesterday(t) == Add(t, -24 * MinPerHour)

\* TemperatureSwitch with a polar night that looks at yesterday as the
\* midnight sun does.
TemperatureSwitchPolarYesterday(t, lat, long, lo, hi, current) ==
    CASE current.Condition = "NormalSun" ->
           [temp |-> calcTempNormal(t, current, lo, hi),
            current |-> current, sunCalls |-> <<t>>, panicked |-> FALSE]
      [] OTHER ->
           [temp |-> IF /\ CalculateSun(yesterday(t), lat, long).Condition
                              = "NormalSun"
                        /\ Before(t, current.Sunrise)
                     THEN calcTempNormal(t, current, lo, hi)
                     ELSE Q(hi, 1),
            current |-> current, sunCalls |-> <<t, yesterday(t)>>,
            panicked |-> FALSE]

\* The switch of CalculateTemperature on the Sun of t: the temperature
\* returned, the Sun of t, the instants CalculateSun was called with, in
\* order, and whether the default branch panicked.
TemperatureSwitch(t, lat, long, lo, hi, current) ==
    CASE current.Condition = "NormalSun" ->
           [temp |-> calcTempNormal(t, current, lo, hi),
            current |-> current, sunCalls |-> <<t>>, panicked |-> FALSE]
      [] current.Condition = "MidnightSun" ->
           [temp |-> IF /\ CalculateSun(yesterday(t), lat, long).Condition
                              = "NormalSun"
                        /\ Before(t, current.Sunrise)
                     THEN calcTempNormal(t, current, lo, hi)
                     ELSE Q(hi, 1),
            current |-> current, sunCalls |-> <<t, yesterday(t)>>,
            panicked |-> FALSE]
      [] current.Condition = "PolarNightSun" ->
           [temp |-> Q(lo, 1), current |-> current, sunCalls |-> <<t>>,
            panicked |-> FALSE]
      [] OTHER ->
           [temp |-> Q(0, 0), current |-> current, sunCalls |-> <<t>>,
            panicked |-> TRUE]

\* CalculateTemperature with what it did.
TemperatureFrame(t, lat, long, lo, hi) ==
    TemperatureSwitch(t, lat, long, lo, hi, CalculateSun(t, lat, long))

CalculateTemperature(t, lat, long, lo, hi) ==
    TemperatureFrame(t, lat, long, lo, hi).temp

----------------------------------------------------------------------------
(* The whitepoint engine.  A Temperature argument is a float64 record of   *)
(* whole Kelvin; chromaticities and channel values are fixed point.        *)

\* illuminantD: [ok, x, y]; not ok is the throwf panic.  x is summed in
\* millionths: c / temp, c / temp^2, c / temp^3 by repeated division.
illuminantD(temp) ==
    LET x == IF temp >= 2500 /\ temp <= 7000
             THEN 244063
                  + 99110000 \div temp
                  + ((296780000 \div temp) * 10000) \div temp
                  - ((((460700000 \div temp) * 10000) \div temp) * 1000) \div temp
             ELSE 237040
                  + 247480000 \div temp
                  + ((190180000 \div temp) * 10000) \div temp
                  - ((((200640000 \div temp) * 10000) \div temp) * 1000) \div temp
        xf == x \div 100
    IN  IF temp >= 2500 /\ temp <= 25000
        THEN [ok |-> TRUE, x |-> xf,
              y |-> -3 * Mul(xf, xf) + Mul(28700, xf) - 2750]
        ELSE [ok |-> FALSE, x |-> 0, y |-> 0]

\* The x of planckianLocus, for 1667 <= temp < 25000.
planckianLocusX(temp) ==
    IF temp <= 4000
    THEN (-((((266123900 \div temp) * 1000) \div temp) * 1000) \div temp
          - ((234358900 \div temp) * 1000) \div temp
          + 877695600 \div temp
          + 179910) \div 100
    ELSE (-((((302584690 \div temp) * 10000) \div temp) * 1000) \div temp
          + ((210703790 \div temp) * 10000) \div temp
          + 222634700 \div temp
          + 240390) \div 100

\* The y of planckianLocus from its x, for 1667 <= temp < 25000.
planckianLocusY(temp, x) ==
    IF temp <= 2222
    THEN -Mul(11065, Mul(Mul(x, x), x)) - Mul(13481, Mul(x, x))
         + Mul(21856, x) - 2022
    ELSE IF temp <= 4000
    THEN -Mul(9549, Mul(Mul(x, x), x)) - Mul(13742, Mul(x, x))
         + Mul(20914, x) - 1675
    ELSE Mul(30818, Mul(Mul(x, x), x)) - Mul(58734, Mul(x, x))
         + Mul(37511, x) - 3700

\* planckianLocus: [ok, x, y]; not ok is the throwf panic.
planckianLocus(temp) ==
    IF (temp >= 1667 /\ temp <= 4000) \/ (temp > 4000 /\ temp < 25000)
    THEN [ok |-> TRUE, x |-> planckianLocusX(temp),
          y |-> planckianLocusY(temp, planckianLocusX(temp))]
    ELSE [ok |-> FALSE, x |-> 0, y |-> 0]

\* 2^(-k / 2.2) for k = 0..10, and m^(1 / 2.2) for m = 1, 1 + 1/16, .., 2.
PowHalvings == <<10000, 7297, 5325, 3886, 2836, 2069, 1510, 1102, 804, 587, 428>>

PowMantissa ==
    <<10000, 10279, 10550, 10812, 11068, 11316, 11558, 11793, 12024,
      12249, 12469, 12685, 12896, 13104, 13307, 13507, 13704>>

RECURSIVE Doublings(_)
\* How often 0 < u <= 2 must be doubled to reach [1, 2).
Doublings(u) == IF u >= SC THEN 0 ELSE 1 + Doublings(2 * u)

RECURSIVE Pow2(_)
Pow2(k) == IF k = 0 THEN 1 ELSE 2 * Pow2(k - 1)

\* math.Pow(u, 1.0 / 2.2) for 0 < u < 2: u = m / 2^k with 1 <= m < 2,
\* m^(1/2.2) from the table, interpolated, times 2^(-k/2.2).
PowInvGamma(u) ==
    LET k == Doublings(u)
        m == u * Pow2(k) - SC
        i == (m * 16) \div SC
        f == (m * 16) % SC
        r == PowMantissa[i + 1]
               + ((PowMantissa[i + 2] - PowMantissa[i + 1]) * f) \div SC
    IN  Mul(r, PowHalvings[k + 1])

\* gamma is 2.2 at every call.
srgbGamma(value) ==
    IF value * 10 <= 313 THEN Mul(129200, value)
    ELSE PowInvGamma(Mul(10550, value)) - 550

\* clamp on a fixed-point float64.
clampF(value) ==
    IF value > SC THEN SC ELSE IF value < 0 THEN 0 ELSE value

xyzToSRGB(x, y, z) ==
    [r |-> srgbGamma(clampF(Mul(32405, x) - Mul(15371, y) - Mul(4985, z))),
     g |-> srgbGamma(clampF(-Mul(9693, x) + Mul(18760, y) + Mul(416, z))),
     b |-> srgbGamma(clampF(Mul(556, x) - Mul(2040, y) + Mul(10572, z)))]

Max(a, b) == IF a >= b THEN a ELSE b

\* A float64 quotient: 0 / 0 is NaN, c / 0 an infinity.
FDiv(a, b) ==
    IF b = 0 THEN (IF a = 0 THEN NaNF(FALSE) ELSE InfF(a < 0))
    ELSE F(Div(a, b))

\* srgbNormalize that divides by the red channel.
srgbNormalizeByRed(r, g, b) ==
    [r |-> FDiv(r, r), g |-> FDiv(g, r), b |-> FDiv(b, r)]

srgbNormalize(r, g, b) ==
    LET maxw == Max(r, Max(g, b))
    IN  [r |-> FDiv(r, maxw), g |-> FDiv(g, maxw), b |-> FDiv(b, maxw)]

\* The chromaticity of one helper: [ok, x, y, callsD, callsP], with the
\* temperatures passed to illuminantD and to planckianLocus.
Picked(c, callsD, callsP) ==
    [ok |-> c.ok, x |-> c.x, y |-> c.y, callsD |-> callsD, callsP |-> callsP]

\* The chromaticity blended of illuminantD's and planckianLocus's.
Blended(temp, d, p, sinefactor) ==
    [ok |-> d.ok /\ p.ok,
     x |-> Mul(d.x, sinefactor) + Mul(p.x, SC - sinefactor),
     y |-> Mul(d.y, sinefactor) + Mul(p.y, SC - sinefactor),
     callsD |-> <<temp>>, callsP |-> <<temp>>]

\* Chromaticity that blends from 2400 K up.
ChromaticityBlendFrom2400(temp) ==
    IF FGe(temp, 25000)
    THEN Picked(illuminantD(25000), <<25000>>, <<>>)
    ELSE IF FGe(temp, 4000)
    THEN Picked(illuminantD(temp.v), <<temp.v>>, <<>>)
    ELSE IF FGe(temp, 2400)
    THEN Blended(temp.v, illuminantD(temp.v), planckianLocus(temp.v),
                 (Cos(Mul(Pi, Div(4000 - temp.v, 1500))) + SC) \div 2)
    ELSE IF FGe(temp, 1667)
    THEN Picked(planckianLocus(temp.v), <<>>, <<temp.v>>)
    ELSE Picked(planckianLocus(1667), <<>>, <<1667>>)

\* Chromaticity that takes 25000 K for the temperatures from 30000 K up.
ChromaticityHighFrom30000(temp) ==
    IF FGe(temp, 30000)
    THEN Picked(illuminantD(25000), <<25000>>, <<>>)
    ELSE IF FGe(temp, 4000)
    THEN Picked(illuminantD(temp.v), <<temp.v>>, <<>>)
    ELSE IF FGe(temp, 2500)
    THEN Blended(temp.v, illuminantD(temp.v), planckianLocus(temp.v),
                 (Cos(Mul(Pi, Div(4000 - temp.v, 1500))) + SC) \div 2)
    ELSE IF FGe(temp, 1667)
    THEN Picked(planckianLocus(temp.v), <<>>, <<temp.v>>)
    ELSE Picked(planckianLocus(1667), <<>>, <<1667>>)

\* The chromaticity CalculateWhitepoint picks for temp # 6500.
Chromaticity(temp) ==
    IF FGe(temp, 25000)
    THEN Picked(illuminantD(25000), <<25000>>, <<>>)
    ELSE IF FGe(temp, 4000)
    THEN Picked(illuminantD(temp.v), <<temp.v>>, <<>>)
    ELSE IF FGe(temp, 2500)
    THEN Blended(temp.v, illuminantD(temp.v), planckianLocus(temp.v),
                 (Cos(Mul(Pi, Div(4000 - temp.v, 1500))) + SC) \div 2)
    ELSE IF FGe(temp, 1667)
    THEN Picked(planckianLocus(temp.v), <<>>, <<temp.v>>)
    ELSE Picked(planckianLocus(1667), <<>>, <<1667>>)

\* What CalculateWhitepoint returns from the chromaticity c and the
\* normalized channels n, or the panic of a helper.
WhitepointReturn(c, n) ==
    IF c.ok
    THEN [rw |-> n.r, gw |-> n.g, bw |-> n.b, panicked |-> FALSE,
          fast |-> FALSE, callsD |-> c.callsD, callsP |-> c.callsP]
    ELSE [rw |-> NaNF(FALSE), gw |-> NaNF(FALSE), bw |-> NaNF(FALSE),
          panicked |-> TRUE, fast |-> FALSE,
          callsD |-> c.callsD, callsP |-> c.callsP]

\* srgbNormalize on the channels s of xyzToSRGB.
Normalized(s) == srgbNormalize(s.r, s.g, s.b)

\* z, xyzToSRGB and srgbNormalize on the chromaticity c.
WhitepointOf(c) ==
    WhitepointReturn(c, Normalized(xyzToSRGB(c.x, c.y, SC - c.x - c.y)))

\* CalculateWhitepoint without the 6500 K fast path.
CalculateWhitepointComputed(temp) == WhitepointOf(Chromaticity(temp))

\* CalculateWhitepoint with what it did: the three channels, whether a
\* helper panicked, whether the 6500 K fast path returned, and the
\* temperatures passed to the two helpers.
CalculateWhitepoint(temp) ==
    IF FEq(temp, 6500)
    THEN [rw |-> F(SC), gw |-> F(SC), bw |-> F(SC), panicked |-> FALSE,
          fast |-> TRUE, callsD |-> <<>>, callsP |-> <<>>]
    ELSE WhitepointOf(Chromaticity(temp))

----------------------------------------------------------------------------
(* The calls that are made: their arguments are drawn from the sets below. *)

\* Days since 1970-01-01 of 2021-01-01.
Day2021 == 18628

\* Each anchor day is followed by SpanDays more days.
SpanDays == 2

\* Instants of a day are taken every GridStep minutes.
GridStep == 360

\* Instants within TouchRadius minutes of each sun event are taken too.
TouchRadius == 1

\* Each ramp is sampled at RampSamples evenly spaced instants.
RampSamples == 4

\* Whitepoint temperatures: WhiteCount multiples of WhiteStep Kelvin.
WhiteCount == 2500

WhiteStep == 20

\* Days of 2021 (0 is January 1) around: the end of the leap year 2020, the
\* start of daylight saving time, the onset of the midnight sun at 65 N,
\* the last days of twilight at 70 S, the end of daylight saving time, and
\* the onset of the polar night at 65 N.
AnchorDays == {-2, 71, 132, 300, 309, 345}

Days == {Day2021 + a + k : a \in AnchorDays, k \in 0..SpanDays}

Zones == {"UTC", "LA"}

Lats == {-90, -70, 0, 34, 65, 90}

Longs == {-118, 0, 100}

\* DefaultLowTemperature, DefaultHighTemperature
DefaultLowTemperature == 4000

DefaultHighTemperature == 6500

TempPairs ==
    {<<DefaultLowTemperature, DefaultHighTemperature>>,
     <<DefaultHighTemperature, DefaultLowTemperature>>,
     <<DefaultLowTemperature, DefaultLowTemperature>>}

At(day, minute, loc) == [u |-> day * MinPerDay + minute, loc |-> loc]

GridInstants ==
    {At(d, k * GridStep, z) :
        d \in Days, k \in 0..((MinPerDay - 1) \div GridStep), z \in Zones}

\* The set events of a Sun.
SetEvents(sun) ==
    {e \in {sun.Dawn, sun.Sunrise, sun.Sunset, sun.Dusk} : ~IsZero(e)}

\* Instants of zone loc within TouchRadius minutes of each set event.
TouchInstants(sun, loc) ==
    {[u |-> e.u + k, loc |-> loc] :
        e \in SetEvents(sun), k \in -TouchRadius..TouchRadius}

\* RampSamples + 1 evenly spaced instants from a to b, when both are set.
RampInstants(a, b, loc) ==
    IF IsZero(a) \/ IsZero(b) THEN {}
    ELSE {[u |-> a.u + ((b.u - a.u) * k) \div RampSamples, loc |-> loc] :
              k \in 0..RampSamples}

\* Instants that probe a Sun: around each set event and along both ramps.
ProbeInstants(sun, loc) ==
    TouchInstants(sun, loc)
        \cup RampInstants(sun.Dawn, sun.Sunrise, loc)
        \cup RampInstants(sun.Sunset, sun.Dusk, loc)

\* The instants of day d in zone z at which a temperature is asked for.
TempInstants(d, z, lat, long) ==
    {At(d, MinPerDay \div 2, z), At(d, 0, z), At(d, MinPerHour, z)}
        \cup TouchInstants(CalculateSun(At(d, MinPerDay \div 2, z), lat, long), z)

\* float64 values of either sign: numbers, zeros, NaNs and infinities.
SignedFloats ==
    {F(1), F(-1), F(0), [F(0) EXCEPT !.neg = TRUE],
     NaNF(FALSE), NaNF(TRUE), InfF(FALSE), InfF(TRUE)}

\* Temperature arguments of CalculateWhitepoint: a grid of 0 .. 50000 K, the
\* band edges and their neighbours, a negative number, NaN and infinities.
WhiteTemps ==
    {F(k * WhiteStep) : k \in 0..WhiteCount}
        \cup {F(e + k) : e \in {1667, 2222, 2500, 4000, 6500, 7000, 25000},
                         k \in -1..1}
        \cup {F(-300), NaNF(FALSE), NaNF(TRUE), InfF(FALSE), InfF(TRUE)}

\* The arguments of the calls of each function.
SunCalls ==
    {[op |-> "CalculateSun", t |-> t, lat |-> lat, long |-> long] :
        t \in GridInstants, lat \in Lats, long \in Longs}

TemperatureCalls ==
    UNION {{[op |-> "CalculateTemperature", t |-> t, lat |-> a[3],
             long |-> a[4], lo |-> p[1], hi |-> p[2]] :
               t \in TempInstants(a[1], a[2], a[3], a[4]), p \in TempPairs} :
           a \in Days \X Zones \X Lats \X Longs}

\* calcTempNormal is called on a Sun that CalculateSun returns.
TempNormalCalls ==
    UNION {{[op |-> "calcTempNormal", t |-> t, sun |-> s[1],
             lo |-> p[1], hi |-> p[2]] :
               t \in ProbeInstants(s[1], "UTC"), p \in TempPairs} :
           s \in {<<CalculateSun(At(a[1], MinPerDay \div 2, "UTC"), a[2], a[3])>> :
                     a \in Days \X Lats \X Longs}}

\* The instants of the two ramps of a Sun, and the minute before each.
TwiceInstants(sun) ==
    {Add(t, -k) :
        t \in RampInstants(sun.Dawn, sun.Sunrise, "UTC")
                \cup RampInstants(sun.Sunset, sun.Dusk, "UTC"),
        k \in 0..1}

\* calcTempNormal at two instants t1 <= t2 of one Sun.
TempNormalTwiceCalls ==
    UNION {{[op |-> "calcTempNormalTwice", t1 |-> tt[1], t2 |-> tt[2],
             sun |-> s[1], lo |-> p[1], hi |-> p[2]] :
               tt \in {x \in TwiceInstants(s[1]) \X TwiceInstants(s[1]) :
                          x[1].u <= x[2].u},
               p \in TempPairs} :
           s \in {<<CalculateSun(At(Day2021 + a[1], MinPerDay \div 2, "UTC"), a[2], 0)>> :
                     a \in AnchorDays \X Lats}}

ConditionCalls ==
    {[op |-> "calcCondition", latitudeRad |-> a, sunDeclination |-> b] :
        a \in SignedFloats, b \in SignedFloats}

WhitepointCalls ==
    {[op |-> "CalculateWhitepoint", temp |-> temp] : temp \in WhiteTemps}

\* The helpers are called as well.  Their instants are taken every
\* HelperStep minutes of the days around the two changes of the Los Angeles
\* clock in 2021.
HelperStep == 90

\* Longitudes are whole degrees from -MaxLong to MaxLong.
MaxLong == 180

ClockDays == {Day2021 + d : d \in {71, 72, 73, 309, 310, 311}}

HelperInstants ==
    {At(d, k * HelperStep, z) :
        d \in ClockDays, k \in 0..((MinPerDay - 1) \div HelperStep), z \in Zones}

TruncateLongitudeCalls ==
    {[op |-> "timeTruncateDayLongitude", t |-> At(Day2021 + d, m, z),
      long |-> long] :
        d \in {72, 310}, m \in {MinPerDay \div 2}, z \in Zones,
        long \in -MaxLong..MaxLong}

\* Years that the Gregorian rules tell apart, and the days since 1970-01-01
\* of January 1 of each and of the year after.
Years == {1900, 2000, 2020, 2021, 2100}

Jan1Of ==
    [y \in Years \cup {y + 1 : y \in Years} |->
        CASE y = 1900 -> -25567 [] y = 1901 -> -25202
          [] y = 2000 -> 10957  [] y = 2001 -> 11323
          [] y = 2020 -> 18262  [] y = 2021 -> 18628
          [] y = 2022 -> 18993
          [] y = 2100 -> 47482  [] y = 2101 -> 47847]

\* time.Date(y, ...) in zone z: the instant that reads minute m of the day
\* d days after January 1 of year y.
DateIn(y, d, m, z) ==
    [u |-> (Jan1Of[y] + d) * MinPerDay + m
             - ZoneOffset(z, (Jan1Of[y] + d) * MinPerDay + m),
     loc |-> z]

\* Instants of the first day, of the sixtieth and of the last day of a year.
OrbitCalls ==
    {[op |-> "dateOrbitAngle", year |-> y, t |-> DateIn(y, d, m, z)] :
        y \in Years, d \in {0, 59, 363, 364, 365},
        m \in {0, MinPerDay \div 2, MinPerDay - 1}, z \in Zones}
      \ {[op |-> "dateOrbitAngle", year |-> y, t |-> DateIn(y, 365, m, z)] :
            y \in {x \in Years : Jan1Of[x + 1] - Jan1Of[x] = 365},
            m \in {0, MinPerDay \div 2, MinPerDay - 1}, z \in Zones}

TruncateCalls ==
    {[op |-> "timeTruncateDay", t |-> t] : t \in HelperInstants}

\* Declinations between the solstices, in fixed-point radians.
Declinations == {-4000, -2750, 0, 2750, 4000}

HourAngleCalls ==
    {[op |-> "sunHourAngle", latitude |-> radians(lat * SC),
      declination |-> decl, targetSun |-> z] :
        lat \in Lats, decl \in Declinations,
        z \in {startTwilight, endTwilight}}

YesterdayCalls ==
    {[op |-> "yesterday", t |-> t] : t \in HelperInstants}

\* Seconds to add: NaN of either sign, and whole seconds of either sign.
AddedSeconds ==
    {NaNF(FALSE), NaNF(TRUE)}
        \cup {F(v) : v \in {-86400, -3600, -60, 0, 1, 60, 90, 3600, 86400}}

AddSecondsCalls ==
    {[op |-> "timeAddSeconds", t |-> At(Day2021 + d, m, z), secs |-> secs] :
        d \in {72, 310}, m \in {0, MinPerDay \div 2}, z \in Zones,
        secs \in AddedSeconds}

\* Timestamps of a Sun record that no CalculateSun need return: unset, or
\* one of StampCount consecutive minutes from noon of 2021-03-14.
StampCount == 3

Stamps ==
    {ZeroTime} \cup {At(Day2021 + 72, MinPerDay \div 2 + k, "UTC") :
                        k \in 0..(StampCount - 1)}

\* Every Sun record of these timestamps, ordered or not.
AnySuns ==
    {[Dawn |-> a[1], Sunrise |-> a[2], Sunset |-> a[3], Dusk |-> a[4],
      Condition |-> "NormalSun"] : a \in Stamps \X Stamps \X Stamps \X Stamps}

\* calcTempNormal on any Sun record, from the minute before the first
\* timestamp to the minute after the last.
TempNormalAnySunCalls ==
    {[op |-> "calcTempNormalAnySun",
      t |-> At(Day2021 + 72, MinPerDay \div 2 + k, "UTC"), sun |-> sun,
      lo |-> p[1], hi |-> p[2]] :
        k \in -1..StampCount, sun \in AnySuns, p \in TempPairs}

\* Days at the ends of 2020, 2021 and 2022 and in the middle of 2021.
YearEdgeDays == {Day2021 + d : d \in {-1, 0, 1, 172, 364, 365}}

\* Minutes of a day: its first two, the one before noon and its last.
DayMinutes == {0, 1, MinPerDay \div 2 - 1, MinPerDay - 1}

\* Two calls of CalculateSun with one latitude and longitude, in UTC, whose
\* offset is fixed: t2 on the date of t1 or on the next.
SunTwiceCalls ==
    {[op |-> "CalculateSunTwice", t1 |-> At(d, m[1], "UTC"),
      t2 |-> At(d + k, m[2], "UTC"), lat |-> lat, long |-> long] :
        d \in YearEdgeDays, k \in 0..1, m \in DayMinutes \X DayMinutes,
        lat \in Lats, long \in Longs}

NoResult == [op |-> "none"]

\* One call is made, with arguments drawn from the sets above.
Init ==
    /\ pc = "called"
    /\ ret = NoResult
    /\ \/ call \in SunCalls
       \/ call \in TemperatureCalls
       \/ call \in TempNormalCalls
       \/ call \in TempNormalTwiceCalls
       \/ call \in ConditionCalls
       \/ call \in WhitepointCalls
       \/ call \in TruncateLongitudeCalls
       \/ call \in OrbitCalls
       \/ call \in TruncateCalls
       \/ call \in HourAngleCalls
       \/ call \in YesterdayCalls
       \/ call \in AddSecondsCalls
       \/ call \in TempNormalAnySunCalls
       \/ call \in SunTwiceCalls

\* CalculateSun(t, lat, long) returns; the result is kept with the local
\* variables.
ReturnCalculateSun ==
    /\ pc = "called" /\ call.op = "CalculateSun"
    /\ ret' = SunFrame(call.t, call.lat, call.long)
    /\ pc' = "returned"
    /\ UNCHANGED call

\* CalculateTemperature(t, lat, long, lo, hi) returns.
ReturnCalculateTemperature ==
    /\ pc = "called" /\ call.op = "CalculateTemperature"
    /\ ret' = TemperatureFrame(call.t, call.lat, call.long, call.lo, call.hi)
    /\ pc' = "returned"
    /\ UNCHANGED call

\* calcTempNormal(t, sun, lo, hi) returns.
ReturnCalcTempNormal ==
    /\ pc = "called" /\ call.op = "calcTempNormal"
    /\ ret' = [temp |-> calcTempNormal(call.t, call.sun, call.lo, call.hi)]
    /\ pc' = "returned"
    /\ UNCHANGED call

\* The two calls calcTempNormal(t1, ..) and calcTempNormal(t2, ..) return.
ReturnCalcTempNormalTwice ==
    /\ pc = "called" /\ call.op = "calcTempNormalTwice"
    /\ ret' = [temp1 |-> calcTempNormal(call.t1, call.sun, call.lo, call.hi),
               temp2 |-> calcTempNormal(call.t2, call.sun, call.lo, call.hi)]
    /\ pc' = "returned"
    /\ UNCHANGED call

\* calcCondition(latitudeRad, sunDeclination) returns.
ReturnCalcCondition ==
    /\ pc = "called" /\ call.op = "calcCondition"
    /\ ret' = [condition |-> calcCondition(call.latitudeRad, call.sunDeclination)]
    /\ pc' = "returned"
    /\ UNCHANGED call

\* CalculateWhitepoint(temp) returns.
ReturnCalculateWhitepoint ==
    /\ pc = "called" /\ call.op = "CalculateWhitepoint"
    /\ ret' = CalculateWhitepoint(call.temp)
    /\ pc' = "returned"
    /\ UNCHANGED call

\* timeTruncateDayLongitude(t, long) returns; timeTruncateDay(t), which it
\* calls first, is kept with the result.
ReturnTimeTruncateDayLongitude ==
    /\ pc = "called" /\ call.op = "timeTruncateDayLongitude"
    /\ ret' = [t0  |-> timeTruncateDayLongitude(call.t, call.long),
               day |-> timeTruncateDay(call.t)]
    /\ pc' = "returned"
    /\ UNCHANGED call

\* dateOrbitAngle(t) returns; daysInYear(t), which it calls, and
\* t.YearDay() are kept with the result.
ReturnDateOrbitAngle ==
    /\ pc = "called" /\ call.op = "dateOrbitAngle"
    /\ ret' = [days       |-> daysInYear(call.t),
               yearDay    |-> YearDay(call.t),
               orbitAngle |-> dateOrbitAngle(call.t)]
    /\ pc' = "returned"
    /\ UNCHANGED call

\* timeTruncateDay(t) returns, and then timeAddSeconds(ts, 1) on its
\* result, as in TestTimeWithSeconds.
ReturnTimeTruncateDay ==
    /\ pc = "called" /\ call.op = "timeTruncateDay"
    /\ ret' = [ts   |-> timeTruncateDay(call.t),
               plus |-> timeAddSeconds(timeTruncateDay(call.t), F(1))]
    /\ pc' = "returned"
    /\ UNCHANGED call

\* sunHourAngle(latitude, declination, targetSun) returns.
ReturnSunHourAngle ==
    /\ pc = "called" /\ call.op = "sunHourAngle"
    /\ ret' = [ha |-> sunHourAngle(call.latitude, call.declination,
                                   call.targetSun)]
    /\ pc' = "returned"
    /\ UNCHANGED call

\* yesterday(t) returns.
ReturnYesterday ==
    /\ pc = "called" /\ call.op = "yesterday"
    /\ ret' = [t |-> yesterday(call.t)]
    /\ pc' = "returned"
    /\ UNCHANGED call

\* timeAddSeconds(t, secs) returns.
ReturnTimeAddSeconds ==
    /\ pc = "called" /\ call.op = "timeAddSeconds"
    /\ ret' = [t |-> timeAddSeconds(call.t, call.secs)]
    /\ pc' = "returned"
    /\ UNCHANGED call

\* calcTempNormal(t, sun, lo, hi) returns, with the calls of interpTemp it
\* made.
ReturnCalcTempNormalAnySun ==
    /\ pc = "called" /\ call.op = "calcTempNormalAnySun"
    /\ ret' = [temp  |-> calcTempNormal(call.t, call.sun, call.lo, call.hi),
               calls |-> interpTempCalls(call.t, call.sun, call.lo, call.hi)]
    /\ pc' = "returned"
    /\ UNCHANGED call

\* The two calls CalculateSun(t1, lat, long) and CalculateSun(t2, lat, long)
\* return.
ReturnCalculateSunTwice ==
    /\ pc = "called" /\ call.op = "CalculateSunTwice"
    /\ ret' = [first  |-> SunFrame(call.t1, call.lat, call.long),
               second |-> SunFrame(call.t2, call.lat, call.long)]
    /\ pc' = "returned"
    /\ UNCHANGED call

Next ==
    \/ ReturnCalculateSun
    \/ ReturnCalculateTemperature
    \/ ReturnCalcTempNormal
    \/ ReturnCalcTempNormalTwice
    \/ ReturnCalcCondition
    \/ ReturnCalculateWhitepoint
    \/ ReturnTimeTruncateDayLongitude
    \/ ReturnDateOrbitAngle
    \/ ReturnTimeTruncateDay
    \/ ReturnSunHourAngle
    \/ ReturnYesterday
    \/ ReturnTimeAddSeconds
    \/ ReturnCalcTempNormalAnySun
    \/ ReturnCalculateSunTwice

Spec == Init /\ [][Next]_vars

----------------------------------------------------------------------------
(* The properties.                                                         *)

\* The fraction q is the number n / d, for d > 0.
QIs(q, n, d) == ~q.nan /\ ~q.inf /\ q.num * d = n * q.den

\* The fraction q is at most the fraction r; both are numbers.
QLe(q, r) == q.num * r.den <= r.num * q.den

\* C1: on a Sun whose Condition is NormalSun, calcTempNormal(t, sun, lo, hi)
\* is lo when t < Dawn, lo + (hi - lo) * (t - Dawn) / (Sunrise - Dawn) when
\* Dawn <= t < Sunrise, hi when Sunrise <= t < Sunset,
\* hi + (lo - hi) * (t - Sunset) / (Dusk - Sunset) when Sunset <= t < Dusk,
\* and lo when t >= Dusk.
TempNormalWindows ==
    (pc = "returned" /\ call.op = "calcTempNormal"
        /\ call.sun.Condition = "NormalSun") =>
    LET t       == call.t.u
        dawn    == call.sun.Dawn.u
        sunrise == call.sun.Sunrise.u
        sunset  == call.sun.Sunset.u
        dusk    == call.sun.Dusk.u
    IN  /\ t < dawn => QIs(ret.temp, call.lo, 1)
        /\ (dawn <= t /\ t < sunrise) =>
              QIs(ret.temp,
                  call.lo * (sunrise - dawn) + (call.hi - call.lo) * (t - dawn),
                  sunrise - dawn)
        /\ (sunrise <= t /\ t < sunset) => QIs(ret.temp, call.hi, 1)
        /\ (sunset <= t /\ t < dusk) =>
              QIs(ret.temp,
                  call.hi * (dusk - sunset) + (call.lo - call.hi) * (t - sunset),
                  dusk - sunset)
        /\ t >= dusk => QIs(ret.temp, call.lo, 1)

\* calcTempNormal has returned a temperature strictly between hi and lo for
\* an instant inside the evening ramp of a NormalSun day.
TempNormalInEveningRamp ==
    /\ pc = "returned" /\ call.op = "calcTempNormal"
    /\ call.sun.Condition = "NormalSun"
    /\ call.lo < call.hi
    /\ call.sun.Sunset.u < call.t.u /\ call.t.u < call.sun.Dusk.u
    /\ call.lo * ret.temp.den < ret.temp.num
    /\ ret.temp.num < call.hi * ret.temp.den

\* C2: when the Sun of t is PolarNightSun, CalculateTemperature returns lo
\* and calls CalculateSun for t only; when it is MidnightSun, it returns
\* calcTempNormal on the Sun of t if CalculateSun(t - 24h) is NormalSun and
\* t is before the Sunrise of t's Sun, and hi otherwise.
TemperatureNonNormal ==
    (pc = "returned" /\ call.op = "CalculateTemperature") =>
    LET today == CalculateSun(call.t, call.lat, call.long)
        dayBefore ==
            CalculateSun([u |-> call.t.u - 24 * 60, loc |-> call.t.loc],
                         call.lat, call.long)
    IN  /\ today.Condition = "PolarNightSun" =>
              /\ QIs(ret.temp, call.lo, 1)
              /\ ret.sunCalls = <<call.t>>
        /\ today.Condition = "MidnightSun" =>
              IF /\ dayBefore.Condition = "NormalSun"
                 /\ call.t.u < today.Sunrise.u
              THEN ret.temp = calcTempNormal(call.t, today, call.lo, call.hi)
              ELSE QIs(ret.temp, call.hi, 1)

\* CalculateTemperature has returned for an instant before the Sunrise of a
\* MidnightSun day that follows a NormalSun day.
TemperatureFirstMidnightSun ==
    /\ pc = "returned" /\ call.op = "CalculateTemperature"
    /\ ret.current.Condition = "MidnightSun"
    /\ Len(ret.sunCalls) = 2
    /\ CalculateSun(ret.sunCalls[2], call.lat, call.long).Condition = "NormalSun"
    /\ ~IsZero(ret.current.Sunrise)
    /\ call.t.u < ret.current.Sunrise.u

\* C3: when CalculateSun returns NormalSun, Dawn <= Sunrise <= Sunset <= Dusk.
SunOrdered ==
    (pc = "returned" /\ call.op = "CalculateSun"
        /\ ret.sun.Condition = "NormalSun") =>
    /\ ret.sun.Dawn.u <= ret.sun.Sunrise.u
    /\ ret.sun.Sunrise.u <= ret.sun.Sunset.u
    /\ ret.sun.Sunset.u <= ret.sun.Dusk.u

\* CalculateSun has returned a NormalSun day with four distinct timestamps.
SunNormalDay ==
    /\ pc = "returned" /\ call.op = "CalculateSun"
    /\ ret.sun.Condition = "NormalSun"
    /\ ret.sun.Dawn.u < ret.sun.Sunrise.u
    /\ ret.sun.Sunrise.u < ret.sun.Sunset.u
    /\ ret.sun.Sunset.u < ret.sun.Dusk.u

\* C4: CalculateSun's Condition is NormalSun exactly when neither hour angle
\* is NaN, and otherwise MidnightSun when the sign bits of the latitude and
\* of the declination are equal and PolarNightSun when they differ;
\* calcCondition returns MidnightSun for equal sign bits and PolarNightSun
\* for different ones, NaN arguments of either sign included, and never
\* NormalSun.
ConditionBySignBits ==
    /\ (pc = "returned" /\ call.op = "CalculateSun") =>
          IF ~ret.haTwilight.nan /\ ~ret.haDaylight.nan
          THEN ret.sun.Condition = "NormalSun"
          ELSE ret.sun.Condition =
                 IF (ret.latitudeRad < 0) = (ret.decl < 0)
                 THEN "MidnightSun" ELSE "PolarNightSun"
    /\ (pc = "returned" /\ call.op = "calcCondition") =>
          /\ ret.condition # "NormalSun"
          /\ ret.condition =
               IF call.latitudeRad.neg = call.sunDeclination.neg
               THEN "MidnightSun" ELSE "PolarNightSun"

\* CalculateSun has returned PolarNightSun for a day with a twilight hour
\* angle but no daylight hour angle.
SunPolarNightWithTwilight ==
    /\ pc = "returned" /\ call.op = "CalculateSun"
    /\ ~ret.haTwilight.nan /\ ret.haDaylight.nan
    /\ ret.sun.Condition = "PolarNightSun"

SunSameDate ==
    (pc = "returned" /\ call.op = "CalculateSun"
        /\ ret.sun.Condition = "NormalSun") =>
    \A e \in {ret.sun.Dawn, ret.sun.Sunrise, ret.sun.Sunset, ret.sun.Dusk} :
        LocalDay(e) = LocalDay(call.t)

\* C7: for lo < hi and a NormalSun Sun, calcTempNormal does not decrease
\* from t1 to t2 when Dawn <= t1 <= t2 < Sunrise and does not increase from
\* t1 to t2 when Sunset <= t1 <= t2 < Dusk.
RampsMonotonic ==
    (pc = "returned" /\ call.op = "calcTempNormalTwice"
        /\ call.sun.Condition = "NormalSun" /\ call.lo < call.hi) =>
    /\ (/\ call.sun.Dawn.u <= call.t1.u /\ call.t1.u <= call.t2.u
        /\ call.t2.u < call.sun.Sunrise.u) => QLe(ret.temp1, ret.temp2)
    /\ (/\ call.sun.Sunset.u <= call.t1.u /\ call.t1.u <= call.t2.u
        /\ call.t2.u < call.sun.Dusk.u) => QLe(ret.temp2, ret.temp1)

\* calcTempNormal has returned a higher temperature for the later of two
\* instants of the morning ramp.
MorningRampRises ==
    /\ pc = "returned" /\ call.op = "calcTempNormalTwice"
    /\ call.sun.Condition = "NormalSun" /\ call.lo < call.hi
    /\ call.sun.Dawn.u <= call.t1.u /\ call.t1.u < call.t2.u
    /\ call.t2.u < call.sun.Sunrise.u
    /\ ~QLe(ret.temp2, ret.temp1)

\* C8: CalculateWhitepoint does not panic, whatever the temperature: it
\* calls illuminantD with temperatures in [2500, 25000] only and
\* planckianLocus with temperatures in [1667, 4000] only.
WhitepointNeverPanics ==
    (pc = "returned" /\ call.op = "CalculateWhitepoint") =>
    /\ ~ret.panicked
    /\ \A i \in 1..Len(ret.callsD) :
          2500 <= ret.callsD[i] /\ ret.callsD[i] <= 25000
    /\ \A i \in 1..Len(ret.callsP) :
          1667 <= ret.callsP[i] /\ ret.callsP[i] <= 4000

\* CalculateWhitepoint has returned after calling both illuminantD and
\* planckianLocus.
WhitepointBlended ==
    /\ pc = "returned" /\ call.op = "CalculateWhitepoint"
    /\ Len(ret.callsD) = 1 /\ Len(ret.callsP) = 1
    /\ ~ret.panicked

\* The three channels of a result of CalculateWhitepoint.
ChannelsOf(w) == <<w.rw, w.gw, w.bw>>

\* C9: CalculateWhitepoint(T) is CalculateWhitepoint(25000) for T >= 25000
\* and CalculateWhitepoint(1667) for T < 1667, and panics for neither.
WhitepointClamps ==
    (pc = "returned" /\ call.op = "CalculateWhitepoint") =>
    /\ (/\ ~call.temp.nan
        /\ IF call.temp.inf THEN ~call.temp.neg ELSE call.temp.v >= 25000) =>
          /\ ~ret.panicked
          /\ ChannelsOf(ret) = ChannelsOf(CalculateWhitepoint(F(25000)))
    /\ (/\ ~call.temp.nan
        /\ IF call.temp.inf THEN call.temp.neg ELSE call.temp.v < 1667) =>
          /\ ~ret.panicked
          /\ ChannelsOf(ret) = ChannelsOf(CalculateWhitepoint(F(1667)))

\* CalculateWhitepoint has returned for 50000 K.
WhitepointOf50000 ==
    /\ pc = "returned" /\ call.op = "CalculateWhitepoint"
    /\ call.temp = F(50000)
    /\ ~ret.panicked /\ ~ret.fast

\* C10: the three channels CalculateWhitepoint returns are numbers in
\* [0, 1], and the largest of them is 1.
WhitepointChannels ==
    (pc = "returned" /\ call.op = "CalculateWhitepoint") =>
    /\ \A c \in {ret.rw, ret.gw, ret.bw} :
          ~c.nan /\ ~c.inf /\ 0 <= c.v /\ c.v <= SC
    /\ \E c \in {ret.rw, ret.gw, ret.bw} : c.v = SC

\* CalculateWhitepoint has returned, past the 6500 K fast path, a blue
\* channel of 1 and a smaller red channel.
WhitepointBlueBrightest ==
    /\ pc = "returned" /\ call.op = "CalculateWhitepoint"
    /\ ~ret.fast
    /\ ret.bw.v = SC /\ ret.rw.v < SC /\ ret.rw.v > 0

\* C11: CalculateWhitepoint(6500) returns (1.0, 1.0, 1.0) on its fast path,
\* without calling illuminantD or planckianLocus and without the matrix,
\* gamma and normalization steps.
WhitepointOf6500 ==
    (pc = "returned" /\ call.op = "CalculateWhitepoint"
        /\ ~call.temp.nan /\ ~call.temp.inf /\ call.temp.v = 6500) =>
    /\ ret.fast /\ ~ret.panicked
    /\ ret.rw.v = SC /\ ret.gw.v = SC /\ ret.bw.v = SC
    /\ \A c \in {ret.rw, ret.gw, ret.bw} : ~c.nan /\ ~c.inf /\ ~c.neg
    /\ ret.callsD = <<>> /\ ret.callsP = <<>>

\* CalculateWhitepoint has returned on its fast path.
WhitepointFastPath ==
    /\ pc = "returned" /\ call.op = "CalculateWhitepoint"
    /\ call.temp.v = 6500 /\ ret.fast

\* C12: the instant timeTruncateDayLongitude(t, long) returns is less than
\* one hour from timeTruncateDay(t), after it for a positive longitude,
\* before it for a negative one, and equal to it for longitude 0.
LongitudeShiftUnderAnHour ==
    (pc = "returned" /\ call.op = "timeTruncateDayLongitude") =>
    LET shift == ret.t0.u - ret.day.u
    IN  /\ -60 < shift /\ shift < 60
        /\ call.long > 0 => shift >= 0
        /\ call.long < 0 => shift <= 0
        /\ call.long = 0 => shift = 0

\* timeTruncateDayLongitude has returned an instant before timeTruncateDay(t)
\* for the longitude of Los Angeles, whose offset is longer than an hour.
LongitudeShiftsBack ==
    /\ pc = "returned" /\ call.op = "timeTruncateDayLongitude"
    /\ call.long = -118
    /\ ret.t0.u < ret.day.u

\* C13: daysInYear(t) is 366 when the year of t in its zone is a Gregorian
\* leap year and 365 otherwise; 1 <= t.YearDay() <= daysInYear(t), and the
\* orbit angle is in (0, 2 * pi].
DaysInYearIsYearLength ==
    (pc = "returned" /\ call.op = "dateOrbitAngle") =>
    /\ ret.days =
         IF call.year % 4 = 0 /\ (call.year % 100 # 0 \/ call.year % 400 = 0)
         THEN 366 ELSE 365
    /\ 1 <= ret.yearDay /\ ret.yearDay <= ret.days
    /\ 0 < ret.orbitAngle /\ ret.orbitAngle <= 2 * Pi

\* dateOrbitAngle has returned for the last day of the leap year 2020.
LastDayOfLeapYear ==
    /\ pc = "returned" /\ call.op = "dateOrbitAngle"
    /\ call.year = 2020
    /\ ret.days = 366 /\ ret.yearDay = 366

\* The minutes since the Unix epoch that instant x reads on the wall clock
\* of its zone.
WallClock(x) == x.u + ZoneOffset(x.loc, x.u)

\* C14: timeTruncateDay(t) is t less the time of day that t's wall clock
\* reads, as an elapsed duration: it reads 00:00 on t's date when the clock
\* did not change between local midnight and t, and 01:00 on t's date when
\* it was set back one hour between local midnight and t; one second later
\* the wall clock reads the same minute.
TruncateDayByWallClock ==
    (pc = "returned" /\ call.op = "timeTruncateDay") =>
    LET setBack    == /\ call.t.loc = "LA"
                      /\ LADstEnd <= call.t.u
                      /\ call.t.u < LADstEnd + 23 * 60
        setForward == /\ call.t.loc = "LA"
                      /\ LADstStart <= call.t.u
                      /\ call.t.u < LADstStart + 21 * 60
    IN  /\ ret.ts.u = call.t.u - (WallClock(call.t) % 1440)
        /\ ret.ts.loc = call.t.loc
        /\ (~setBack /\ ~setForward) =>
              /\ WallClock(ret.ts) % 1440 = 0
              /\ WallClock(ret.ts) \div 1440 = WallClock(call.t) \div 1440
        /\ setBack =>
              /\ WallClock(ret.ts) % 1440 = 60
              /\ WallClock(ret.ts) \div 1440 = WallClock(call.t) \div 1440
        /\ WallClock(ret.plus) = WallClock(ret.ts)

\* timeTruncateDay has returned an instant that reads 01:00 for an instant
\* after the Los Angeles clock was set back.
TruncatedToOneOClock ==
    /\ pc = "returned" /\ call.op = "timeTruncateDay"
    /\ call.t.loc = "LA" /\ call.t.u >= LADstEnd
    /\ WallClock(ret.ts) % 1440 = 60
    /\ WallClock(ret.ts) \div 1440 = WallClock(call.t) \div 1440

\* acos(cos(zenith) / (cos(lat) * cos(decl)) - tan(lat) * tan(decl)): the
\* cosine of the zenith divided by the product of the two other cosines.
HourAngleByProduct(lat, decl, zenith) ==
    IF Cos(lat) = 0 \/ Mul(Cos(lat), Cos(decl)) = 0 THEN NaNF(FALSE)
    ELSE Acos(Div(Cos(zenith), Mul(Cos(lat), Cos(decl)))
              - Mul(Tan(lat), Tan(decl)))

\* C15: sunHourAngle(lat, decl, zenith) is
\* acos(cos(zenith) / (cos(lat) * cos(decl)) - tan(lat) * tan(decl)): both
\* are NaN, or both are angles and differ by 0.01 rad at most.
HourAngleDividesByProduct ==
    (pc = "returned" /\ call.op = "sunHourAngle") =>
    \/ /\ ret.ha.nan
       /\ HourAngleByProduct(call.latitude, call.declination,
                             call.targetSun).nan
    \/ /\ ~ret.ha.nan
       /\ ~HourAngleByProduct(call.latitude, call.declination,
                              call.targetSun).nan
       /\ Abs(ret.ha.v - HourAngleByProduct(call.latitude, call.declination,
                                            call.targetSun).v) <= 100

\* C16: yesterday(t) is 24 hours before t and reads the wall-clock time of
\* t on the calendar day before t's.
YesterdaySameClock ==
    (pc = "returned" /\ call.op = "yesterday") =>
    /\ ret.t.u = call.t.u - 24 * 60
    /\ ret.t.loc = call.t.loc
    /\ WallClock(ret.t) % 1440 = WallClock(call.t) % 1440
    /\ WallClock(ret.t) \div 1440 = WallClock(call.t) \div 1440 - 1

\* C17: timeAddSeconds(t, secs) is t when secs is NaN, and otherwise t
\* advanced by secs seconds (in whole minutes, toward zero).
AddSecondsKeepsOnNaN ==
    (pc = "returned" /\ call.op = "timeAddSeconds") =>
    IF call.secs.nan
    THEN ret.t = call.t
    ELSE /\ ret.t.loc = call.t.loc
         /\ ret.t.u = call.t.u
              + (IF call.secs.v < 0 THEN -((-call.secs.v) \div 60)
                 ELSE call.secs.v \div 60)

\* C18: CalculateTemperature returns without reaching its panic branch, a
\* number v with min(lo, hi) <= v <= max(lo, hi), for lo and hi in either
\* order; when lo = hi it returns that value, under every sun condition.
TemperatureWithinBounds ==
    (pc = "returned" /\ call.op = "CalculateTemperature") =>
    /\ ~ret.panicked
    /\ ~ret.temp.nan /\ ~ret.temp.inf
    /\ ret.current.Condition \in {"NormalSun", "MidnightSun", "PolarNightSun"}
    /\ IF call.lo <= call.hi
       THEN QLe(Q(call.lo, 1), ret.temp) /\ QLe(ret.temp, Q(call.hi, 1))
       ELSE QLe(Q(call.hi, 1), ret.temp) /\ QLe(ret.temp, Q(call.lo, 1))
    /\ call.lo = call.hi => QIs(ret.temp, call.lo, 1)

\* CalculateTemperature with lo above hi returns a value strictly between.
TemperatureInsideReversed ==
    /\ pc = "returned" /\ call.op = "CalculateTemperature"
    /\ call.lo > call.hi
    /\ ~ret.panicked /\ ~ret.temp.nan /\ ~ret.temp.inf
    /\ ~QLe(ret.temp, Q(call.hi, 1))
    /\ ~QLe(Q(call.lo, 1), ret.temp)

\* The window of one call of interpTemp: start <= t < stop, and the
\* Duration stop - start is not zero.
InterpCallInWindow(c) ==
    /\ ~Before(c.t, c.start)
    /\ Before(c.t, c.stop)
    /\ Sub(c.stop, c.start) # 0

\* The position of one call of interpTemp is a number, not negative, and
\* clamp leaves it as it is.
InterpCallUnclamped(c) ==
    /\ ~timePos(c.t, c.start, c.stop).nan
    /\ ~timePos(c.t, c.start, c.stop).inf
    /\ timePos(c.t, c.start, c.stop).num >= 0
    /\ clamp(timePos(c.t, c.start, c.stop)) = timePos(c.t, c.start, c.stop)

\* The position of one call of interpTemp is below 1.
InterpCallBelowOne(c) ==
    timePos(c.t, c.start, c.stop).num < timePos(c.t, c.start, c.stop).den

\* Both Durations of one call of interpTemp are the largest Duration.
InterpCallSaturated(c) ==
    Sub(c.t, c.start) = MaxDuration /\ Sub(c.stop, c.start) = MaxDuration

MidnightRampTaken ==
    /\ ret.current.Condition = "MidnightSun"
    /\ Len(ret.sunCalls) = 2
    /\ ret.sunCalls[2] = yesterday(call.t)
    /\ CalculateSun(ret.sunCalls[2], call.lat, call.long).Condition = "NormalSun"
    /\ Before(call.t, ret.current.Sunrise)

MidnightSunriseUnset ==
    /\ pc = "returned" /\ call.op = "CalculateTemperature"
    /\ ret.current.Condition = "MidnightSun"
    /\ IsZero(ret.current.Sunrise)
    /\ call.lo # call.hi
    /\ QIs(ret.temp, call.hi, 1)

\* The longitude offset of CalculateSun in whole minutes, negative to the
\* west.
ShiftMinutes(long) == TDiv(TRem(longitudeTimeOffset(long), 3600), 60)

\* The calendar day, in days since 1970-01-01, of the reference instant of
\* a call at UTC instant t: the day of t, or the one before when the
\* longitude offset is negative.
ReferenceDay(t, long) ==
    t.u \div 1440 - (IF ShiftMinutes(long) < 0 THEN 1 ELSE 0)

\* The orbit angle of calendar day number day: 2 pi / (days of its year)
\* times its day of the year.
OrbitAngleOfDay(day, year) ==
    TDiv(2 * Pi * (day - DaysToJan1(year) + 1),
         IF year % 4 = 0 /\ (year % 100 # 0 \/ year % 400 = 0)
         THEN 366 ELSE 365)

\* C21: in UTC, a zone of fixed offset, CalculateSun(t1, lat, long) and
\* CalculateSun(t2, lat, long) are identical when t1 and t2 are on one
\* calendar date; the result is that of the start of the day of t1 shifted
\* by the longitude offset, and the declination and the equation of time
\* are those of the day of the year and the year of that reference (the day
\* before the date of t1 when the offset is negative).
SunSameDateSameResult ==
    (pc = "returned" /\ call.op = "CalculateSunTwice") =>
    /\ call.t1.u \div 1440 = call.t2.u \div 1440 => ret.first = ret.second
    /\ ret.first.t0 =
         [u |-> (call.t1.u \div 1440) * 1440 + ShiftMinutes(call.long),
          loc |-> "UTC"]
    /\ ret.first.t0.u \div 1440 = ReferenceDay(call.t1, call.long)
    /\ ret.first = SunDay(ret.first.t0, call.lat)
    /\ ret.first.decl =
         sunDeclination(OrbitAngleOfDay(ReferenceDay(call.t1, call.long),
                            YearOfDay(ReferenceDay(call.t1, call.long))))
    /\ ret.first.eqtime =
         equationOfTime(OrbitAngleOfDay(ReferenceDay(call.t1, call.long),
                            YearOfDay(ReferenceDay(call.t1, call.long))))

\* CalculateSun has returned the same NormalSun for two different instants
\* of 2021-01-01 at a western longitude: the reference is in 2020, and its
\* declination is not that of the date of the instants.
SunOfPreviousYear ==
    /\ pc = "returned" /\ call.op = "CalculateSunTwice"
    /\ call.t1 # call.t2
    /\ call.t1.u \div 1440 = Day2021 /\ call.t2.u \div 1440 = Day2021
    /\ ShiftMinutes(call.long) < 0
    /\ Year(ret.first.t0) = Year(call.t1) - 1
    /\ YearDay(ret.first.t0) = 366
    /\ ret.first.sun.Condition = "NormalSun"
    /\ ret.first.sun = ret.second.sun
    /\ ret.first.decl # sunDeclination(dateOrbitAngle(call.t1))

=============================================================================
